---- MODULE Spec2Model ----
(***************************************************************************)
(* A model of extract_subs.py: the LCS similarity scorer (_lcs_ratio), the *)
(* streaming deduplicator (deduplicate), the per-frame OCR filter          *)
(* (ocr_frames), the crop computation (crop_subtitle_region) and the       *)
(* orchestration of main with its temporary directory and output file.     *)
(*                                                                         *)
(* A Python str is modelled as a sequence of one-character strings (one    *)
(* element per code point, as len() and indexing see it).  A similarity    *)
(* ratio is modelled as the exact fraction <<num, den>> that the float     *)
(* division rounds; two fractions with small denominators round to the     *)
(* same double only when they are equal, so comparing the fractions        *)
(* decides exactly what comparing the floats decides.                      *)
(* The crop arithmetic int(h * (1 - crop_ratio)) is modelled in binary64,  *)
(* digit by digit, because its rounding decides the result.                *)
(***************************************************************************)
EXTENDS Integers, Sequences, FiniteSets, TLC

VARIABLES
    a, b, result,            \* _lcs_ratio: arguments, return value
    lpc,                     \* _lcs_ratio: position
    lines,                   \* main's lines, deduplicate's parameter (the same list)
    similarity_threshold,    \* deduplicate's parameter
    deduped,                 \* deduplicate's list, main's deduped once returned
    idx,                     \* deduplicate: lines consumed by the loop
    dpc,                     \* deduplicate: position
    pc,                      \* main: position
    keep_frames,             \* args.keep_frames
    tmp_dir,                 \* the temporary directory: "none", "exists", "deleted"
    tmp_files,               \* the entries of the temporary directory
    video_path,              \* main's video_path
    frames,                  \* main's frames: per frame, what the OCR engine does on it
    all_lines,               \* ocr_frames' all_lines
    i,                       \* ocr_frames: frames consumed by the loop
    exc,                     \* the exception or SystemExit propagating, "none" if none
    exit_code,               \* the process exit status
    output_file,             \* the content of args.output, NoFile if absent
    output_before,           \* the content of args.output when the run started
    w, h,                    \* crop_subtitle_region: img.size
    crop_ratio,              \* crop_subtitle_region: the ratio <<p, q>> the float is read from
    top,                     \* crop_subtitle_region: top
    box,                     \* crop_subtitle_region: the box given to img.crop
    cpc                      \* crop_subtitle_region: position

lcsVars == <<a, b, result, lpc>>
dedupVars == <<lines, similarity_threshold, deduped, idx, dpc>>
mainVars == <<pc, keep_frames, tmp_dir, tmp_files, video_path, frames, all_lines, i,
              exc, exit_code, output_file, output_before>>
cropVars == <<w, h, crop_ratio, top, box, cpc>>
vars == <<a, b, result, lpc, lines, similarity_threshold, deduped, idx, dpc,
          pc, keep_frames, tmp_dir, tmp_files, video_path, frames, all_lines, i,
          exc, exit_code, output_file, output_before,
          w, h, crop_ratio, top, box, cpc>>

----------------------------------------------------------------------------
(* Bounds of the checked inputs *)

MaxStrLen == 3
MaxLineLen == 2
MaxLines == 3

LcsAlphabet == {"a", "b", "c"}
LineAlphabet == {"a", "b"}

\* All strings over alphabet of length lo..hi.
Strings(alphabet, lo, hi) == UNION {[1..k -> alphabet] : k \in lo..hi}

\* All sequences over S of length 0..n.
SeqsUpTo(S, n) == UNION {[1..k -> S] : k \in 0..n}

----------------------------------------------------------------------------
(* Fractions *)

RatLess(x, y) == x[1] * y[2] < y[1] * x[2]
RatEq(x, y) == x[1] * y[2] = y[1] * x[2]

Max(x, y) == IF x >= y THEN x ELSE y

----------------------------------------------------------------------------
(* _lcs_ratio *)

\* Faulty variant of NoMatchCell: curr_row[j - 1] is forgotten.
NoMatchCellDropLeft(prev_row, curr_row, j) == prev_row[j + 1]

\* The else branch of the inner loop: max(prev_row[j], curr_row[j - 1]).
\* Rows are Python lists of n + 1 cells; cell j is element j + 1 here.
NoMatchCell(prev_row, curr_row, j) == Max(prev_row[j + 1], curr_row[j])

\* Faulty variant of MatchCell: prev_row[j] is read instead of prev_row[j - 1].
MatchCellAbove(prev_row, j) == prev_row[j + 1] + 1

\* The then branch of the inner loop: prev_row[j - 1] + 1.
MatchCell(prev_row, j) == prev_row[j] + 1

\* The inner loop, for j in range(1, n + 1), from column j on.
RECURSIVE FillRow(_, _, _, _, _)
FillRow(ai, bs, prev_row, curr_row, j) ==
    IF j > Len(bs) THEN curr_row
    ELSE FillRow(ai, bs, prev_row,
                 [curr_row EXCEPT ![j + 1] =
                     IF ai = bs[j] THEN MatchCell(prev_row, j)
                     ELSE NoMatchCell(prev_row, curr_row, j)],
                 j + 1)

\* The outer loop, for i in range(1, m + 1), from i = row on; returns the last prev_row.
RECURSIVE LcsRows(_, _, _, _)
LcsRows(as, bs, prev_row, row) ==
    IF row > Len(as) THEN prev_row
    ELSE LcsRows(as, bs,
                 FillRow(as[row], bs, prev_row, [k \in 1..(Len(bs) + 1) |-> 0], 1),
                 row + 1)

lcs_ratio(as, bs) ==
    LET m == Len(as)
        n == Len(bs)
    IN  IF m = 0 /\ n = 0 THEN <<1, 1>>
        ELSE IF m = 0 \/ n = 0 THEN <<0, 1>>
        ELSE LET prev_row == LcsRows(as, bs, [k \in 1..(n + 1) |-> 0], 1)
             IN  <<2 * prev_row[n + 1], m + n>>

\* A direct call of _lcs_ratio(a, b).
CallLcsRatio ==
    /\ lpc = "call"
    /\ result' = lcs_ratio(a, b)
    /\ lpc' = "returned"
    /\ UNCHANGED <<a, b, dedupVars, mainVars, cropVars>>

----------------------------------------------------------------------------
(* deduplicate *)

\* The default of the parameter similarity_threshold, 0.8.
DefaultThreshold == <<4, 5>>

Thresholds == {<<0, 1>>, <<1, 2>>, <<2, 3>>, DefaultThreshold, <<1, 1>>}

Last(s) == s[Len(s)]

\* Faulty variant of Representative: the first emitted line, deduped[0].
RepresentativeFirst(out) == out[1]

\* What the loop compares a line against: deduped[-1].
Representative(out) == Last(out)

\* Faulty variant of IsNewLine: <= in place of <.
IsNewLineNonStrict(line, out, threshold) ==
    ~RatLess(threshold, lcs_ratio(line, Representative(out)))

\* The loop's test: _lcs_ratio(line, deduped[-1]) < similarity_threshold.
IsNewLine(line, out, threshold) ==
    RatLess(lcs_ratio(line, Representative(out)), threshold)

\* if not lines: return []; otherwise deduped = [lines[0]] and the loop starts.
DedupEnter ==
    /\ dpc = "entry"
    /\ IF lines = <<>>
       THEN /\ deduped' = <<>>
            /\ dpc' = "returned"
            /\ idx' = idx
       ELSE /\ deduped' = <<lines[1]>>
            /\ dpc' = "loop"
            /\ idx' = 1
    /\ UNCHANGED <<lines, similarity_threshold, lcsVars, mainVars, cropVars>>

\* Faulty variant of DedupIterate: the line is compared against the preceding
\* input line, whether or not that one was emitted.
DedupIteratePrevRaw ==
    /\ dpc = "loop"
    /\ idx < Len(lines)
    /\ LET line == lines[idx + 1]
       IN  deduped' = IF RatLess(lcs_ratio(line, lines[idx]), similarity_threshold)
                      THEN Append(deduped, line)
                      ELSE deduped
    /\ idx' = idx + 1
    /\ UNCHANGED <<lines, similarity_threshold, dpc, lcsVars, mainVars, cropVars>>

\* Faulty variant of DedupIterate: a new line is put in front of the list.
DedupIteratePrepend ==
    /\ dpc = "loop"
    /\ idx < Len(lines)
    /\ LET line == lines[idx + 1]
       IN  deduped' = IF IsNewLine(line, deduped, similarity_threshold)
                      THEN <<line>> \o deduped
                      ELSE deduped
    /\ idx' = idx + 1
    /\ UNCHANGED <<lines, similarity_threshold, dpc, lcsVars, mainVars, cropVars>>

\* One iteration of for line in lines[1:]; idx counts the lines consumed.
DedupIterate ==
    /\ dpc = "loop"
    /\ idx < Len(lines)
    /\ LET line == lines[idx + 1]
       IN  deduped' = IF IsNewLine(line, deduped, similarity_threshold)
                      THEN Append(deduped, line)
                      ELSE deduped
    /\ idx' = idx + 1
    /\ UNCHANGED <<lines, similarity_threshold, dpc, lcsVars, mainVars, cropVars>>

\* The loop is exhausted: return deduped.
DedupReturn ==
    /\ dpc = "loop"
    /\ idx = Len(lines)
    /\ dpc' = "returned"
    /\ UNCHANGED <<lines, similarity_threshold, deduped, idx, lcsVars, mainVars, cropVars>>

----------------------------------------------------------------------------
(* Python values of the OCR engine, and str.join / str.strip *)

\* ocr.ocr returns None, or a list with one entry per image; the entry is None
\* or a list of detections; of a detection only the text, line[1][0], is read.
PyNone == [tag |-> "None", items |-> <<>>]
PyList(xs) == [tag |-> "list", items |-> xs]
Detection(text) == [tag |-> "detection", items |-> text]
\* The engine (or Image.open, or np.array) raises on the frame.
Raises == [tag |-> "raises", items |-> <<>>]

\* Python's truth value of None or a list.
Truthy(v) == v.tag = "list" /\ v.items # <<>>

\* The characters str.strip() removes.
Whitespace == {" ", "\t", "\n"}

\* sep.join(strs)
RECURSIVE Join(_, _)
Join(strs, sep) ==
    IF strs = <<>> THEN <<>>
    ELSE IF Len(strs) = 1 THEN strs[1]
    ELSE strs[1] \o sep \o Join(Tail(strs), sep)

RECURSIVE LStrip(_)
LStrip(s) == IF s # <<>> /\ s[1] \in Whitespace THEN LStrip(Tail(s)) ELSE s

RECURSIVE RStrip(_)
RStrip(s) ==
    IF s # <<>> /\ s[Len(s)] \in Whitespace THEN RStrip(SubSeq(s, 1, Len(s) - 1)) ELSE s

\* s.strip()
Strip(s) == LStrip(RStrip(s))

----------------------------------------------------------------------------
(* ocr_frames *)

\* What the OCR engine may do on a frame.
OcrOutcomes ==
    { Raises,
      PyNone,
      PyList(<<PyNone>>),
      PyList(<<PyList(<<>>)>>),
      PyList(<<PyList(<<PyNone>>)>>),
      PyList(<<PyList(<<Detection(<<" ">>)>>)>>),
      PyList(<<PyList(<<Detection(<<>>), Detection(<<>>)>>)>>),
      PyList(<<PyList(<<Detection(<<" ", "a", "b">>)>>)>>),
      PyList(<<PyList(<<Detection(<<"a", "b">>)>>)>>),
      PyList(<<PyList(<<Detection(<<"a">>), Detection(<<"b">>)>>)>>) }

\* if not result or not result[0]: continue
NoText(res) == ~Truthy(res) \/ ~Truthy(res.items[1])

\* line[1][0] for a line of result[0] raises TypeError when the line is None.
Unsubscriptable(res) == \E k \in 1..Len(res.items[1].items) : res.items[1].items[k].tag = "None"

\* " ".join(line[1][0] for line in result[0])
FrameText(res) ==
    Join([k \in 1..Len(res.items[1].items) |-> res.items[1].items[k].items], <<" ">>)

\* Faulty variant of FrameLines: the stripped text is appended even when empty.
FrameLinesKeepEmpty(res) ==
    IF NoText(res) THEN <<>> ELSE <<Strip(FrameText(res))>>

\* What one iteration appends to all_lines: nothing, or the stripped frame text.
FrameLines(res) ==
    IF NoText(res) THEN <<>>
    ELSE IF Strip(FrameText(res)) # <<>> THEN <<Strip(FrameText(res))>> ELSE <<>>

\* ocr_frames(frames, crop_ratio) is entered: the engine is built, all_lines = [].
OcrEnter ==
    /\ pc = "ocr" /\ exc = "none"
    /\ \/ /\ all_lines' = <<>>
          /\ i' = 0
          /\ pc' = "ocr_loop"
          /\ exc' = exc
       \/ /\ exc' = "raise_ocr"          \* PaddleOCR(...) raises
          /\ UNCHANGED <<all_lines, i, pc>>
    /\ UNCHANGED <<keep_frames, tmp_dir, tmp_files, video_path, frames,
                   exit_code, output_file, output_before, lcsVars, dedupVars, cropVars>>

\* One iteration of for i, frame_path in enumerate(frames).
OcrFrame ==
    /\ pc = "ocr_loop" /\ exc = "none"
    /\ i < Len(frames)
    /\ LET res == frames[i + 1]
       IN  IF res.tag = "raises" \/ (~NoText(res) /\ Unsubscriptable(res))
           THEN /\ exc' = "raise_ocr"
                /\ UNCHANGED <<all_lines, i>>
           ELSE /\ all_lines' = all_lines \o FrameLines(res)
                /\ i' = i + 1
                /\ exc' = exc
    /\ UNCHANGED <<pc, keep_frames, tmp_dir, tmp_files, video_path, frames,
                   exit_code, output_file, output_before, lcsVars, dedupVars, cropVars>>

\* return all_lines; main binds it to lines.
OcrReturn ==
    /\ pc = "ocr_loop" /\ exc = "none"
    /\ i = Len(frames)
    /\ lines' = all_lines
    /\ pc' = "dedup"
    /\ UNCHANGED <<keep_frames, tmp_dir, tmp_files, video_path, frames, all_lines, i,
                   exc, exit_code, output_file, output_before, lcsVars, cropVars,
                   similarity_threshold, deduped, idx, dpc>>

----------------------------------------------------------------------------
(* main and the collaborators it calls *)

MaxFrames == 3

Running == -1
NoFile == <<"<absent>">>
OldContent == <<"o", "l", "d">>

\* The positions of main inside the with block.
InsideWith == {"download", "extract", "check_frames", "ocr", "ocr_loop", "dedup",
               "dedup_wait", "with_exit"}

\* FFMPEG = find_ffmpeg(), when the module is loaded.
FindFfmpeg ==
    /\ pc = "import" /\ exc = "none"
    /\ \/ pc' = "mkdtemp" /\ exc' = exc
       \/ pc' = pc /\ exc' = "exit_ffmpeg"          \* sys.exit(1)
    /\ UNCHANGED <<keep_frames, tmp_dir, tmp_files, video_path, frames, all_lines, i,
                   exit_code, output_file, output_before, lcsVars, dedupVars, cropVars>>

\* with tempfile.TemporaryDirectory(delete=not args.keep_frames) as tmp_dir
EnterTempDir ==
    /\ pc = "mkdtemp" /\ exc = "none"
    /\ tmp_dir' = "exists"
    /\ tmp_files' = {}
    /\ pc' = "download"
    /\ UNCHANGED <<keep_frames, video_path, frames, all_lines, i, exc,
                   exit_code, output_file, output_before, lcsVars, dedupVars, cropVars>>

\* download_video: the combined stream, or video and audio merged by ffmpeg; it
\* exits when there is no stream and raises when a download or the merge fails.
DownloadVideo ==
    /\ pc = "download" /\ exc = "none"
    /\ \/ /\ tmp_files' = {"video.mp4"}
          /\ video_path' = "video.mp4"
          /\ pc' = "extract"
          /\ exc' = exc
       \/ /\ exc' = "exit_no_streams"
          /\ UNCHANGED <<tmp_files, video_path, pc>>
       \/ /\ exc' = "raise_download"
          /\ tmp_files' \in {{}, {"video_raw.mp4"}, {"video_raw.mp4", "audio_raw"}}
          /\ UNCHANGED <<video_path, pc>>
    /\ UNCHANGED <<keep_frames, tmp_dir, frames, all_lines, i,
                   exit_code, output_file, output_before, lcsVars, dedupVars, cropVars>>

\* extract_frames: frames_dir.mkdir, ffmpeg (check=True), the sorted glob.
ExtractFrames ==
    /\ pc = "extract" /\ exc = "none"
    /\ tmp_files' = tmp_files \cup {"frames"}
    /\ \/ /\ frames' \in SeqsUpTo(OcrOutcomes, MaxFrames)
          /\ pc' = "check_frames"
          /\ exc' = exc
       \/ /\ exc' = "raise_extract"
          /\ UNCHANGED <<frames, pc>>
    /\ UNCHANGED <<keep_frames, tmp_dir, video_path, all_lines, i,
                   exit_code, output_file, output_before, lcsVars, dedupVars, cropVars>>

\* Faulty variant of CheckFrames: an empty frame list is let through.
CheckFramesIgnoreEmpty ==
    /\ pc = "check_frames" /\ exc = "none"
    /\ pc' = "ocr"
    /\ UNCHANGED <<keep_frames, tmp_dir, tmp_files, video_path, frames, all_lines, i,
                   exc, exit_code, output_file, output_before, lcsVars, dedupVars, cropVars>>

\* if not frames: sys.exit(1)
CheckFrames ==
    /\ pc = "check_frames" /\ exc = "none"
    /\ IF frames = <<>>
       THEN exc' = "exit_no_frames" /\ pc' = pc
       ELSE exc' = exc /\ pc' = "ocr"
    /\ UNCHANGED <<keep_frames, tmp_dir, tmp_files, video_path, frames, all_lines, i,
                   exit_code, output_file, output_before, lcsVars, dedupVars, cropVars>>

\* deduped = deduplicate(lines): the call, with the default threshold.
CallDeduplicate ==
    /\ pc = "dedup" /\ exc = "none"
    /\ similarity_threshold' = DefaultThreshold
    /\ dpc' = "entry"
    /\ pc' = "dedup_wait"
    /\ UNCHANGED <<lines, deduped, idx, keep_frames, tmp_dir, tmp_files, video_path,
                   frames, all_lines, i, exc, exit_code, output_file, output_before,
                   lcsVars, cropVars>>

\* deduplicate has returned: main's deduped is bound, the with block is left.
DeduplicateReturned ==
    /\ pc = "dedup_wait" /\ dpc = "returned"
    /\ pc' = "with_exit"
    /\ UNCHANGED <<keep_frames, tmp_dir, tmp_files, video_path, frames, all_lines, i,
                   exc, exit_code, output_file, output_before, lcsVars, dedupVars, cropVars>>

\* Faulty variant of Cleanup: nothing is removed when an exception leaves the block.
CleanupOnlyOnSuccess ==
    IF ~keep_frames /\ exc = "none"
    THEN tmp_dir' = "deleted" /\ tmp_files' = {}
    ELSE UNCHANGED <<tmp_dir, tmp_files>>

\* TemporaryDirectory.__exit__: cleanup() when delete is true, whether the block
\* ended normally or by an exception.
Cleanup ==
    IF ~keep_frames
    THEN tmp_dir' = "deleted" /\ tmp_files' = {}
    ELSE UNCHANGED <<tmp_dir, tmp_files>>

\* The with block ends normally.
LeaveWith ==
    /\ pc = "with_exit" /\ exc = "none"
    /\ Cleanup
    /\ pc' = "write"
    /\ UNCHANGED <<keep_frames, video_path, frames, all_lines, i, exc,
                   exit_code, output_file, output_before, lcsVars, dedupVars, cropVars>>

\* An exception or SystemExit leaves the with block and ends the process.
PropagateFromWith ==
    /\ exc # "none" /\ exit_code = Running
    /\ pc \in InsideWith
    /\ Cleanup
    /\ exit_code' = 1
    /\ UNCHANGED <<pc, keep_frames, video_path, frames, all_lines, i, exc,
                   output_file, output_before, lcsVars, dedupVars, cropVars>>

\* An exception or SystemExit raised outside the with block ends the process.
PropagateOutside ==
    /\ exc # "none" /\ exit_code = Running
    /\ pc \notin InsideWith
    /\ exit_code' = 1
    /\ UNCHANGED <<pc, keep_frames, tmp_dir, tmp_files, video_path, frames, all_lines,
                   i, exc, output_file, output_before, lcsVars, dedupVars, cropVars>>

\* output_path.write_text("\n".join(deduped)): open for writing truncates, then
\* the text is written; it raises when the path cannot be opened or written.
WriteOutput ==
    /\ pc = "write" /\ exc = "none"
    /\ \/ /\ output_file' = Join(deduped, <<"\n">>)
          /\ pc' = "done"
          /\ exc' = exc
          /\ exit_code' = 0
       \/ /\ exc' = "raise_write"
          /\ output_file' \in {output_file, <<>>}
          /\ UNCHANGED <<pc, exit_code>>
    /\ UNCHANGED <<keep_frames, tmp_dir, tmp_files, video_path, frames, all_lines, i,
                   output_before, lcsVars, dedupVars, cropVars>>

IdleMain ==
    /\ pc = "library"
    /\ keep_frames = FALSE
    /\ tmp_dir = "none"
    /\ tmp_files = {}
    /\ video_path = "unbound"
    /\ frames = <<>>
    /\ all_lines = <<>>
    /\ i = 0
    /\ exc = "none"
    /\ exit_code = Running
    /\ output_file = NoFile
    /\ output_before = NoFile

----------------------------------------------------------------------------
(* Python floats: IEEE 754 binary64, round to nearest, ties to even *)

\* A positive float is [bits, exp]: the binary digits of its significand, most
\* significant first, and the exponent of the last digit; its value is
\* bits * 2^exp.  Zero has no digits.  Digits are kept as a sequence because a
\* 53-digit significand does not fit a 32-bit integer.

\* The number of significand digits of a binary64.
Mantissa == 53

Zero == [bits |-> <<>>, exp |-> 0]

RECURSIVE Pow2(_)
Pow2(k) == IF k = 0 THEN 1 ELSE 2 * Pow2(k - 1)

RECURSIVE IntToBits(_)
IntToBits(c) == IF c = 0 THEN <<>> ELSE IntToBits(c \div 2) \o <<c % 2>>

RECURSIVE BitsToInt(_)
BitsToInt(bs) ==
    IF bs = <<>> THEN 0 ELSE 2 * BitsToInt(SubSeq(bs, 1, Len(bs) - 1)) + bs[Len(bs)]

\* bs + 1
IncBits(bs) ==
    LET n == Len(bs)
        zeros == {k \in 1..n : bs[k] = 0}
    IN  IF zeros = {} THEN <<1>> \o [k \in 1..n |-> 0]
        ELSE LET z == CHOOSE k \in zeros : \A m \in zeros : m <= k
             IN  [k \in 1..n |-> IF k < z THEN bs[k] ELSE IF k = z THEN 1 ELSE 0]

\* The float nearest to bs * 2^e (bs may start with zeros).
RoundToFloat(bs, e) ==
    LET n == Len(bs)
        ones == {k \in 1..n : bs[k] = 1}
    IN  IF ones = {} THEN Zero
        ELSE LET f == CHOOSE k \in ones : \A m \in ones : k <= m
                 sig == n - f + 1
             IN  IF sig <= Mantissa THEN [bits |-> SubSeq(bs, f, n), exp |-> e]
                 ELSE LET keep == SubSeq(bs, f, f + Mantissa - 1)
                          guard == bs[f + Mantissa]
                          sticky == \E k \in (f + Mantissa + 1)..n : bs[k] = 1
                          up == guard = 1 /\ (sticky \/ keep[Mantissa] = 1)
                      IN  [bits |-> IF up THEN IncBits(keep) ELSE keep,
                           exp |-> e + (sig - Mantissa)]

\* The shift k with 1 <= p * 2^k / q < 2, for 0 < p <= q.
RECURSIVE NormShift(_, _)
NormShift(p, q) == IF p >= q THEN 0 ELSE 1 + NormShift(2 * p, q)

\* The float nearest to the fraction p/q, 0 < p <= q, by long division: what
\* float() makes of the decimal text of the ratio.
ToFloat(p, q) ==
    LET k == NormShift(p, q)
        Rem[j \in 0..(Mantissa - 1)] ==
            IF j = 0 THEN p * Pow2(k) - q ELSE (2 * Rem[j - 1]) % q
        digits == [j \in 1..Mantissa |-> IF j = 1 THEN 1 ELSE (2 * Rem[j - 2]) \div q]
        rest == Rem[Mantissa - 1]
        up == 2 * rest > q \/ (2 * rest = q /\ digits[Mantissa] = 1)
    IN  [bits |-> IF up THEN IncBits(digits) ELSE digits,
         exp |-> 0 - k - (Mantissa - 1)]

\* 1 - x, for a float 0 < x <= 1.
OneMinus(x) ==
    LET n == Len(x.bits)
        s == 0 - x.exp
    IN  IF n > s THEN Zero
        ELSE LET padded == [k \in 1..s |-> IF k <= s - n THEN 0 ELSE x.bits[k - (s - n)]]
                 ones == {k \in 1..s : padded[k] = 1}
                 t == CHOOSE k \in ones : \A m \in ones : m <= k
                 diff == [k \in 1..s |-> IF k < t THEN 1 - padded[k]
                                         ELSE IF k = t THEN 1 ELSE 0]
             IN  RoundToFloat(diff, x.exp)

\* n * x, for an int n >= 0 (converted exactly) and a float x.
TimesInt(n, x) ==
    LET len == Len(x.bits)
        Carry[j \in 0..len] ==
            IF j = 0 THEN 0 ELSE (n * x.bits[len + 1 - j] + Carry[j - 1]) \div 2
        low == [k \in 1..len |-> (n * x.bits[k] + Carry[len - k]) % 2]
    IN  IF len = 0 THEN Zero ELSE RoundToFloat(IntToBits(Carry[len]) \o low, x.exp)

\* int(x): truncation toward zero.
Trunc(x) ==
    IF x.bits = <<>> THEN 0
    ELSE IF x.exp >= 0 THEN BitsToInt(x.bits) * Pow2(x.exp)
    ELSE IF Len(x.bits) + x.exp <= 0 THEN 0
    ELSE BitsToInt(SubSeq(x.bits, 1, Len(x.bits) + x.exp))

----------------------------------------------------------------------------
(* crop_subtitle_region *)

MaxHeight == 100
MaxWidth == 2
MaxDen == 10

\* Faulty variant of CropTop: int(h * crop_ratio).
CropTopOfRatio(height, ratio) == Trunc(TimesInt(height, ToFloat(ratio[1], ratio[2])))

\* top = int(h * (1 - crop_ratio))
CropTop(height, ratio) == Trunc(TimesInt(height, OneMinus(ToFloat(ratio[1], ratio[2]))))

\* w, h = img.size; top = ...; return img.crop((0, top, w, h))
CropSubtitleRegion ==
    /\ cpc = "call"
    /\ top' = CropTop(h, crop_ratio)
    /\ box' = <<0, top', w, h>>
    /\ cpc' = "returned"
    /\ UNCHANGED <<w, h, crop_ratio, lcsVars, dedupVars, mainVars>>

IdleCrop ==
    /\ w = 1 /\ h = 1
    /\ crop_ratio = <<1, 1>>
    /\ top = 0
    /\ box = <<0, 0, 0, 0>>
    /\ cpc = "idle"

----------------------------------------------------------------------------
(* Specifications *)

IdleLcs == a = <<>> /\ b = <<>> /\ result = <<0, 1>> /\ lpc = "idle"
IdleDedup ==
    /\ lines = <<>>
    /\ similarity_threshold = DefaultThreshold
    /\ deduped = <<>>
    /\ idx = 0
    /\ dpc = "idle"

\* _lcs_ratio called on every pair of bounded strings.
InitLcs ==
    /\ a \in Strings(LcsAlphabet, 0, MaxStrLen)
    /\ b \in Strings(LcsAlphabet, 0, MaxStrLen)
    /\ result = <<0, 1>>
    /\ lpc = "call"
    /\ IdleDedup
    /\ IdleMain
    /\ IdleCrop

NextLcs == CallLcsRatio

SpecLcs == InitLcs /\ [][NextLcs]_vars

\* The example of the specification's section 8: ["ab","xy","ab"] at 0.5.
ExampleLines == << <<"a", "b">>, <<"x", "y">>, <<"a", "b">> >>
ExampleThreshold == <<1, 2>>

\* deduplicate called on every bounded list of lines with every threshold.
InitDedup ==
    /\ \/ /\ lines \in SeqsUpTo(Strings(LineAlphabet, 1, MaxLineLen), MaxLines)
          /\ similarity_threshold \in Thresholds
       \/ /\ lines = ExampleLines
          /\ similarity_threshold = ExampleThreshold
    /\ deduped = <<>>
    /\ idx = 0
    /\ dpc = "entry"
    /\ IdleLcs
    /\ IdleMain
    /\ IdleCrop

NextDedup == DedupEnter \/ DedupIterate \/ DedupReturn

SpecDedup == InitDedup /\ [][NextDedup]_vars

\* A run of the program: python extract_subs.py <url> [--keep-frames].
InitMain ==
    /\ pc = "import"
    /\ keep_frames \in BOOLEAN
    /\ tmp_dir = "none"
    /\ tmp_files = {}
    /\ video_path = "unbound"
    /\ frames = <<>>
    /\ all_lines = <<>>
    /\ i = 0
    /\ exc = "none"
    /\ exit_code = Running
    /\ output_before \in {NoFile, OldContent}
    /\ output_file = output_before
    /\ IdleDedup
    /\ IdleLcs
    /\ IdleCrop

NextMain ==
    \/ FindFfmpeg \/ EnterTempDir \/ DownloadVideo \/ ExtractFrames \/ CheckFrames
    \/ OcrEnter \/ OcrFrame \/ OcrReturn
    \/ CallDeduplicate \/ DedupEnter \/ DedupIterate \/ DedupReturn \/ DeduplicateReturned
    \/ LeaveWith \/ PropagateFromWith \/ PropagateOutside \/ WriteOutput

SpecMain == InitMain /\ [][NextMain]_vars

\* crop_subtitle_region called on every bounded frame size and crop ratio.
InitCrop ==
    /\ w \in 1..MaxWidth
    /\ h \in 1..MaxHeight
    /\ crop_ratio \in {r \in (1..MaxDen) \X (1..MaxDen) : r[1] <= r[2]}
    /\ top = 0
    /\ box = <<0, 0, 0, 0>>
    /\ cpc = "call"
    /\ IdleLcs
    /\ IdleDedup
    /\ IdleMain

NextCrop == CropSubtitleRegion

SpecCrop == InitCrop /\ [][NextCrop]_vars

----------------------------------------------------------------------------
(* Reference definitions used by the properties *)

\* Every subsequence of s (elements kept in order, not necessarily adjacent).
RECURSIVE SubseqsOf(_)
SubseqsOf(s) ==
    IF s = <<>> THEN {<<>>}
    ELSE LET rest == SubseqsOf(Tail(s))
         IN  rest \cup {<<Head(s)>> \o t : t \in rest}

\* The length of a longest common subsequence, by definition.
RefLcsLength(as, bs) ==
    LET common == SubseqsOf(as) \cap SubseqsOf(bs)
    IN  CHOOSE n \in 0..Len(as) :
            /\ \E s \in common : Len(s) = n
            /\ \A s \in common : Len(s) <= n

\* The collapse rule of the specification: one current representative, replaced
\* by each line that is below the threshold against it.
RECURSIVE CollapseFrom(_, _, _, _)
CollapseFrom(ls, k, rep, threshold) ==
    IF k > Len(ls) THEN <<>>
    ELSE IF RatLess(lcs_ratio(ls[k], rep), threshold)
         THEN <<ls[k]>> \o CollapseFrom(ls, k + 1, ls[k], threshold)
         ELSE CollapseFrom(ls, k + 1, rep, threshold)

Collapse(ls, threshold) ==
    IF ls = <<>> THEN <<>> ELSE <<ls[1]>> \o CollapseFrom(ls, 2, ls[1], threshold)

DedupRunning == dpc \in {"loop", "returned"}

----------------------------------------------------------------------------
(* Properties of deduplicate *)

\* C1: in the sequence built by deduplicate every element after the first has
\* similarity (_lcs_ratio) strictly below the threshold to the element
\* immediately before it in the output.
C1_AdjacentBelowThreshold ==
    DedupRunning =>
        \A k \in 2..Len(deduped) :
            RatLess(lcs_ratio(deduped[k], deduped[k - 1]), similarity_threshold)

\* C1 witness: a finished run that emitted several lines and discarded one.
C1_Witness ==
    /\ dpc = "returned"
    /\ Len(deduped) >= 2
    /\ Len(deduped) < Len(lines)

\* C2: each line after the first is compared only against the most recently
\* emitted line: the output over every consumed prefix is the collapse by a
\* single current representative, and ["ab","xy","ab"] at 0.5 keeps all three.
C2_AdjacentOnly ==
    /\ DedupRunning => deduped = Collapse(SubSeq(lines, 1, idx), similarity_threshold)
    /\ (dpc = "returned" /\ lines = ExampleLines
            /\ similarity_threshold = ExampleThreshold) => deduped = ExampleLines

\* C2 witness: the second line was discarded and the third was emitted although
\* it is similar to the discarded second line.
C2_Witness ==
    /\ dpc = "returned"
    /\ Len(lines) = 3
    /\ deduped = <<lines[1], lines[3]>>
    /\ ~RatLess(lcs_ratio(lines[3], lines[2]), similarity_threshold)
    /\ ~RatLess(lcs_ratio(lines[2], lines[1]), similarity_threshold)

\* The line the next iteration consumes has similarity exactly the threshold
\* to the current representative.
NextLineAtThreshold ==
    /\ dpc = "loop"
    /\ idx < Len(lines)
    /\ RatEq(lcs_ratio(lines[idx + 1], Last(deduped)), similarity_threshold)

\* C3 as claimed: a line whose similarity to the current representative is
\* exactly the threshold is kept and becomes the new representative.
C3_EqualIsKept ==
    [][NextLineAtThreshold => deduped' = Append(deduped, lines[idx + 1])]_vars

\* C3 as amended: a line whose similarity to the current representative is
\* exactly the threshold is discarded and the representative is unchanged.
C3_EqualIsDiscarded ==
    [][NextLineAtThreshold => deduped' = deduped]_vars

\* C3 witness: the line just consumed is at exactly the threshold against the
\* representative and is not the representative itself.
C3_Witness ==
    /\ dpc = "loop"
    /\ idx >= 2
    /\ RatEq(lcs_ratio(lines[idx], Last(deduped)), similarity_threshold)
    /\ lines[idx] # Last(deduped)

\* C4: the output is a subsequence of the input in input order, no longer than
\* the input, empty for the empty input, and starts with the first input line.
C4_OrderedSubsequence ==
    DedupRunning =>
        /\ deduped \in SubseqsOf(SubSeq(lines, 1, idx))
        /\ Len(deduped) <= Len(lines)
        /\ (lines = <<>> => deduped = <<>>)
        /\ (lines # <<>> => deduped # <<>> /\ deduped[1] = lines[1])

\* C4 witness: a finished run that kept some lines and dropped others.
C4_Witness ==
    /\ dpc = "returned"
    /\ Len(lines) = MaxLines
    /\ Len(deduped) = 2
    /\ deduped[2] = lines[3]

----------------------------------------------------------------------------
(* Properties of _lcs_ratio *)

\* C5: _lcs_ratio returns 1.0 for two empty strings, 0.0 when exactly one is
\* empty, and otherwise 2*L/(len(a)+len(b)) with L the length of a longest
\* common subsequence.
C5_RatioOfLcs ==
    lpc = "returned" =>
        IF a = <<>> /\ b = <<>> THEN RatEq(result, <<1, 1>>)
        ELSE IF a = <<>> \/ b = <<>> THEN RatEq(result, <<0, 1>>)
        ELSE result = <<2 * RefLcsLength(a, b), Len(a) + Len(b)>>

\* C5 witness: two different non-empty strings whose longest common
\* subsequence is shorter than both and not empty.
C5_Witness ==
    /\ lpc = "returned"
    /\ Len(a) = 3 /\ Len(b) = 3
    /\ result = <<4, 6>>

\* C10: _lcs_ratio(a, b) == _lcs_ratio(b, a), empty strings included.
C10_Symmetric ==
    lpc = "returned" => RatEq(result, lcs_ratio(b, a))

\* C10 witness: a call on strings of different lengths with a common character.
C10_Witness ==
    /\ lpc = "returned"
    /\ Len(a) < Len(b)
    /\ a # <<>>
    /\ result[1] > 0

----------------------------------------------------------------------------
(* Properties of main *)

Terminated == exit_code # Running

\* C6: the output file is written only on a run in which acquisition succeeded,
\* frame extraction produced at least one frame, OCR of every frame completed
\* and deduplication completed; an acquisition failure, an extractor failure,
\* zero frames (exit status 1) or an OCR exception stops main where it is, no
\* later stage runs, and the output file is as it was.
C6_OutputOnlyAfterAllStages ==
    /\ output_file # output_before =>
          /\ pc \in {"write", "done"}
          /\ video_path = "video.mp4"
          /\ frames # <<>>
          /\ i = Len(frames)
          /\ lines = all_lines
          /\ dpc = "returned"
          /\ idx = Len(lines)
    /\ exc \in {"exit_no_streams", "raise_download"} =>
          pc = "download" /\ video_path = "unbound" /\ frames = <<>>
              /\ dpc = "idle" /\ output_file = output_before
    /\ exc = "raise_extract" =>
          pc = "extract" /\ frames = <<>> /\ dpc = "idle" /\ output_file = output_before
    /\ exc = "exit_no_frames" =>
          pc = "check_frames" /\ frames = <<>> /\ all_lines = <<>> /\ dpc = "idle"
              /\ output_file = output_before /\ (Terminated => exit_code = 1)
    /\ exc = "raise_ocr" =>
          pc \in {"ocr", "ocr_loop"} /\ dpc = "idle" /\ output_file = output_before
    /\ (Terminated /\ exit_code = 0) => pc = "done" /\ exc = "none"

\* C6 witness: a run that extracted no frame has ended with status 1 and the
\* earlier output file untouched.
C6_Witness ==
    /\ exc = "exit_no_frames"
    /\ exit_code = 1
    /\ output_before = OldContent
    /\ output_file = OldContent

\* C7: without --keep-frames the temporary directory, once created, is deleted
\* by the time main is past the with block or the process has ended, whatever
\* ended the block (completion, the zero-frames exit, an exception of download,
\* extraction or OCR) and before the output write; with --keep-frames it is
\* never deleted.
C7_TempDirReclaimed ==
    /\ (~keep_frames /\ tmp_dir # "none" /\ (Terminated \/ pc \in {"write", "done"})) =>
          tmp_dir = "deleted" /\ tmp_files = {}
    /\ keep_frames => tmp_dir # "deleted"

\* C7 witness: an OCR exception ended a run without --keep-frames and the
\* directory, which held the video and the frames, is gone.
C7_Witness ==
    /\ exc = "raise_ocr"
    /\ Terminated
    /\ ~keep_frames
    /\ i >= 1
    /\ tmp_dir = "deleted"

\* The recognition of a frame as the specification defines it: the space-joined
\* texts, empty when nothing was detected.
Recognition(res) == IF NoText(res) THEN <<>> ELSE FrameText(res)

IsTextLine(s) == s # <<>> /\ s[1] \notin Whitespace /\ s[Len(s)] \notin Whitespace

NonEmpty(s) == s # <<>>

\* The trimmed non-empty recognitions of fs, in frame order.
TextLinesOf(fs) == SelectSeq([k \in 1..Len(fs) |-> Strip(Recognition(fs[k]))], NonEmpty)

\* C8: ocr_frames forwards no empty or whitespace-only recognition: every line
\* it collects, and every line passed to deduplicate, is a non-empty trimmed
\* string; the lines are the non-empty recognitions in frame order; and the
\* deduplicated result is the collapse of those lines alone, so an empty
\* recognition between two similar ones does not reset the anchor.
C8_OnlyTextLinesForwarded ==
    /\ \A k \in 1..Len(all_lines) : IsTextLine(all_lines[k])
    /\ pc # "library" => all_lines = TextLinesOf(SubSeq(frames, 1, i))
    /\ (pc # "library" /\ dpc # "idle") =>
          /\ lines = TextLinesOf(frames)
          /\ \A k \in 1..Len(lines) : IsTextLine(lines[k])
    /\ pc \in {"with_exit", "write", "done"} =>
          /\ deduped = Collapse(TextLinesOf(frames), DefaultThreshold)
          /\ \A k \in 2..Len(deduped) :
                RatLess(lcs_ratio(deduped[k], deduped[k - 1]), DefaultThreshold)

\* C8 witness: a whitespace-only recognition between two frames that read the
\* same text (once with a leading space) left one line in the output.
C8_Witness ==
    /\ pc = "done"
    /\ Len(frames) = 3
    /\ frames[1] # frames[3]
    /\ ~NoText(frames[2]) /\ Strip(FrameText(frames[2])) = <<>>
    /\ all_lines = << <<"a", "b">>, <<"a", "b">> >>
    /\ deduped = << <<"a", "b">> >>
    /\ output_file = <<"a", "b">>

----------------------------------------------------------------------------
(* Properties of crop_subtitle_region *)

\* Exact arithmetic on h * p / q.
CeilDiv(n, d) == (n + d - 1) \div d
RoundHalfUp(n, d) == (2 * n + d) \div (2 * d)
RoundHalfEven(n, d) ==
    LET fl == n \div d
        r2 == 2 * (n % d)
    IN  IF r2 < d THEN fl
        ELSE IF r2 > d THEN fl + 1
        ELSE IF fl % 2 = 0 THEN fl ELSE fl + 1

HP == h * crop_ratio[1]
Q == crop_ratio[2]
IsPowerOfTwo(n) == \E k \in 0..n : n = Pow2(k)

\* C9 as claimed: the box is the full width and the rows from top to h with
\* crop height = round(h * r) and top = h - crop height (round read either as
\* Python's round or as rounding halves up).
C9_TopIsHeightMinusRounded ==
    cpc = "returned" =>
        /\ box = <<0, top, w, h>>
        /\ top \in {h - RoundHalfEven(HP, Q), h - RoundHalfUp(HP, Q)}

\* C9 as amended: the box is the full width and the rows from top to h with
\* top = int(h * (1 - r)) in double precision; for the ratios p/q with q up to
\* MaxDen and the heights up to MaxHeight, top is h - ceil(h * r), or one row
\* less when h * r is a whole number and the product falls just below it; it
\* is exactly h - ceil(h * r) when q is a power of two; h = 100, r = 0.2 gives
\* top 80 and r = 1.0 gives the entire frame.
C9_TopIsTruncatedProduct ==
    cpc = "returned" =>
        /\ box = <<0, top, w, h>>
        /\ 0 <= top /\ top < h
        /\ top \in {h - CeilDiv(HP, Q), h - CeilDiv(HP, Q) - 1}
        /\ top # h - CeilDiv(HP, Q) => HP % Q = 0
        /\ IsPowerOfTwo(Q) => top = h - CeilDiv(HP, Q)
        /\ (h = 100 /\ crop_ratio = <<1, 5>>) => top = 80
        /\ crop_ratio[1] = Q => top = 0

\* C9 witness: h = 100 and r = 0.8 give top 19, a crop of 81 rows.
C9_Witness ==
    /\ cpc = "returned"
    /\ h = 100
    /\ crop_ratio = <<4, 5>>
    /\ top = 19
    /\ box = <<0, 19, w, 100>>

====
